---- MODULE Spec2Model ----
(* The union_future! macro of src/lib.rs: the enum it generates, its        *)
(* Future::poll, and its From conversions, for the declarations that the    *)
(* crate's tests and documentation make, in both visibility arms.           *)
EXTENDS Integers, Sequences, FiniteSets, TLC

(* ---------------------------------------------------------------------- *)
(* Bounds                                                                   *)
(* ---------------------------------------------------------------------- *)

\* number of polls made on one instance
MaxPolls == 3

\* number of outcomes a branch future of the caller's own goes through
MaxScript == 2

\* the instances a behaviour constructs
Insts == {1, 2}

(* ---------------------------------------------------------------------- *)
(* Values.  Every value is [ty, n].  Integers carry their value in n,       *)
(* floats carry their value in quarters (5.25 is n = 21), Error carries     *)
(* the index of its variant, OtherError carries its field op.               *)
(* ---------------------------------------------------------------------- *)

Val(ty, n) == [ty |-> ty, n |-> n]

Unit == Val("()", 0)

\* enum Error { Fail, BigFail }
Fail == Val("Error", 0)

BigFail == Val("Error", 1)

\* struct OtherError { op: u64 }
OtherError(op) == Val("OtherError", op)

\* struct DbError { }
DbError == Val("DbError", 0)

\* the values of each type the behaviours draw from
ValuesOf(ty) ==
    CASE ty = "u64"        -> {Val("u64", 5), Val("u64", 7)}
      [] ty = "u32"        -> {Val("u32", 5)}
      [] ty = "f32"        -> {Val("f32", 21), Val("f32", 2)}
      [] ty = "Error"      -> {Fail, BigFail}
      [] ty = "OtherError" -> {OtherError(2)}
      [] ty = "DbError"    -> {DbError}

\* From::from(x) with x of type src, into type dst
From_from(src, dst, x) ==
    CASE src = dst                          -> x
      [] src = "u32" /\ dst = "f64"         -> Val("f64", 4 * x.n)
      [] src = "f32" /\ dst = "f64"         -> Val("f64", x.n)
      [] src = "OtherError" /\ dst = "Error" -> BigFail

(* ---------------------------------------------------------------------- *)
(* Poll<T, E> and the branch futures                                        *)
(* ---------------------------------------------------------------------- *)

Ready(t) == [k |-> "Ready", x |-> t]

NotReady == [k |-> "NotReady", x |-> Unit]

Err(e) == [k |-> "Err", x |-> e]

\* the call unwinds
Panic == [k |-> "Panic", x |-> Unit]

FutureType(kind, item, err) == [kind |-> kind, item |-> item, err |-> err]

\* every outcome a future of type ft can report
Outcomes(ft) ==
    {NotReady} \cup {Ready(v) : v \in ValuesOf(ft.item)}
               \cup {Err(e) : e \in ValuesOf(ft.err)}

\* the sequences over S of length 1..n
RECURSIVE SeqsUpTo(_, _)
SeqsUpTo(S, n) ==
    IF n = 0 THEN {}
    ELSE {<<s>> : s \in S}
         \cup {<<s>> \o t : s \in S, t \in SeqsUpTo(S, n - 1)}

\* the values of a branch type, as handed to the union.  st is the state:
\* Empty has none, FutureResult holds Option<Result<T, E>> (<<>> is None).
\* "Future" is any other type that implements futures::Future, which the
\* macro accepts as $ft: its state is the outcomes it is still to report,
\* the last of which it keeps reporting.  What such a type reports when it
\* is polled after Ready or Err is not fixed by the trait, so every
\* sequence of outcomes is drawn.
Futures(ft) ==
    CASE ft.kind = "Empty" ->
           {[ft |-> ft, st |-> <<>>]}
      [] ft.kind = "FutureResult" ->
           {[ft |-> ft, st |-> <<r>>] :
               r \in {Ready(v) : v \in ValuesOf(ft.item)}
                     \cup {Err(e) : e \in ValuesOf(ft.err)}}
      [] ft.kind = "Future" ->
           {[ft |-> ft, st |-> s] : s \in SeqsUpTo(Outcomes(ft), MaxScript)}

\* f.poll() of the wrapped branch: the outcome r and the branch afterwards
f_poll(f) ==
    CASE f.ft.kind = "Empty" ->
           [f |-> f, r |-> NotReady]
      [] f.ft.kind = "FutureResult" ->
           IF f.st = <<>>
           THEN [f |-> f, r |-> Panic]
           ELSE [f |-> [f EXCEPT !.st = <<>>], r |-> f.st[1]]
      [] f.ft.kind = "Future" ->
           [f |-> [f EXCEPT !.st = IF Len(f.st) > 1 THEN Tail(f.st) ELSE f.st],
            r |-> Head(f.st)]

(* ---------------------------------------------------------------------- *)
(* Declarations: the macro invocations of the tests and of the docs         *)
(* ---------------------------------------------------------------------- *)

Branch(n, ft) == [n |-> n, ft |-> ft]

Declaration(name, item, err, branches) ==
    [name |-> name, item |-> item, err |-> err, branches |-> branches]

same_types ==
    Declaration("TestFut", "u64", "Error",
        << Branch("Forever", FutureType("Empty", "u64", "Error")),
           Branch("Immediate", FutureType("FutureResult", "u64", "Error")) >>)

different_item_types ==
    Declaration("TestFut", "f64", "Error",
        << Branch("Number", FutureType("FutureResult", "u32", "Error")),
           Branch("Floating", FutureType("FutureResult", "f32", "Error")) >>)

different_err_types ==
    Declaration("TestFut", "f64", "Error",
        << Branch("Number", FutureType("FutureResult", "u32", "Error")),
           Branch("Floating", FutureType("FutureResult", "f32", "OtherError")) >>)

\* the example of the crate documentation; DbQueryFuture<T> is Empty<T, DbError>
QueryFuture ==
    Declaration("QueryFuture", "u64", "DbError",
        << Branch("Cached", FutureType("FutureResult", "u64", "DbError")),
           Branch("Db", FutureType("Empty", "u64", "DbError")) >>)

\* a declaration over a branch type of the caller's own
any_future ==
    Declaration("AnyFut", "f64", "Error",
        << Branch("Known", FutureType("FutureResult", "f32", "Error")),
           Branch("Other", FutureType("Future", "u32", "OtherError")) >>)

Declarations ==
    {same_types, different_item_types, different_err_types, QueryFuture, any_future}

\* an invocation that names a type, its item and its error and no branch:
\* union_future!(Nothing<u64, Error>,)
no_branches == Declaration("Nothing", "u64", "Error", << >>)

\* what the macro is invoked with
Invocations == Declarations \cup {no_branches}

\* whether an arm of the macro matches the invocation and expands it: the
\* entries are matched by `$( $n: tt => $ft: ty ),*`, zero or more of them,
\* and the expansion for none is `enum $name { }` with `match *self { }`
Expands(d) == Len(d.branches) >= 0

Arms(d) == 1 .. Len(d.branches)

Labels(d) == {d.branches[k].n : k \in Arms(d)}

\* every bare branch value some From impl of d accepts
BranchValues(d) == UNION {Futures(d.branches[k].ft) : k \in Arms(d)}

(* ---------------------------------------------------------------------- *)
(* The generated code.  A value of the enum is [tag, f]: the variant and    *)
(* the branch future it holds.  poll returns the instance afterwards        *)
(* (self), what the call reports (ret) and the f.poll() calls it made       *)
(* (polled: the arm and what the branch reported).                          *)
(* ---------------------------------------------------------------------- *)

\* the arm of `match *self` that matches u
ArmOf(d, u) == CHOOSE k \in Arms(d) : d.branches[k].n = u.tag

\* $name::$n(f), restricted arm
Variant(d, n, f) == [tag |-> n, f |-> f]

\* $name::$n(f), pub arm
Variant_pub(d, n, f) == [tag |-> n, f |-> f]

\* poll that hands the branch's value on without From::from
poll_unconverted(d, u) ==
    LET b == d.branches[ArmOf(d, u)]
        p == f_poll(u.f)
    IN  [self   |-> [u EXCEPT !.f = p.f],
         ret    |-> CASE p.r.k = "Ready"    -> Ready(p.r.x)
                      [] p.r.k = "NotReady" -> NotReady
                      [] p.r.k = "Err"      -> Err(From_from(b.ft.err, d.err, p.r.x))
                      [] p.r.k = "Panic"    -> Panic,
         polled |-> << [n |-> b.n, r |-> p.r] >>]

\* poll that hands the branch's error on without From::from
poll_err_unconverted(d, u) ==
    LET b == d.branches[ArmOf(d, u)]
        p == f_poll(u.f)
    IN  [self   |-> [u EXCEPT !.f = p.f],
         ret    |-> CASE p.r.k = "Ready"    -> Ready(From_from(b.ft.item, d.item, p.r.x))
                      [] p.r.k = "NotReady" -> NotReady
                      [] p.r.k = "Err"      -> Err(p.r.x)
                      [] p.r.k = "Panic"    -> Panic,
         polled |-> << [n |-> b.n, r |-> p.r] >>]

\* poll whose match has no NotReady arm: it unwinds there
poll_unwrap(d, u) ==
    LET b == d.branches[ArmOf(d, u)]
        p == f_poll(u.f)
    IN  [self   |-> [u EXCEPT !.f = p.f],
         ret    |-> CASE p.r.k = "Ready"    -> Ready(From_from(b.ft.item, d.item, p.r.x))
                      [] p.r.k = "NotReady" -> Panic
                      [] p.r.k = "Err"      -> Err(From_from(b.ft.err, d.err, p.r.x))
                      [] p.r.k = "Panic"    -> Panic,
         polled |-> << [n |-> b.n, r |-> p.r] >>]

\* poll that moves a finished branch into the first variant
poll_rebind(d, u) ==
    LET b == d.branches[ArmOf(d, u)]
        p == f_poll(u.f)
    IN  [self   |-> [tag |-> IF p.r.k = "NotReady" THEN u.tag ELSE d.branches[1].n,
                     f   |-> p.f],
         ret    |-> CASE p.r.k = "Ready"    -> Ready(From_from(b.ft.item, d.item, p.r.x))
                      [] p.r.k = "NotReady" -> NotReady
                      [] p.r.k = "Err"      -> Err(From_from(b.ft.err, d.err, p.r.x))
                      [] p.r.k = "Panic"    -> Panic,
         polled |-> << [n |-> b.n, r |-> p.r] >>]

\* poll that polls the branch a second time when it was not ready
poll_retry(d, u) ==
    LET b  == d.branches[ArmOf(d, u)]
        p1 == f_poll(u.f)
        p2 == f_poll(p1.f)
        p  == IF p1.r.k = "NotReady" THEN p2 ELSE p1
    IN  [self   |-> [u EXCEPT !.f = p.f],
         ret    |-> CASE p.r.k = "Ready"    -> Ready(From_from(b.ft.item, d.item, p.r.x))
                      [] p.r.k = "NotReady" -> NotReady
                      [] p.r.k = "Err"      -> Err(From_from(b.ft.err, d.err, p.r.x))
                      [] p.r.k = "Panic"    -> Panic,
         polled |-> IF p1.r.k = "NotReady"
                    THEN << [n |-> b.n, r |-> p1.r], [n |-> b.n, r |-> p2.r] >>
                    ELSE << [n |-> b.n, r |-> p1.r] >>]

\* poll that polls the branch a second time when it failed
poll_retry_err(d, u) ==
    LET b  == d.branches[ArmOf(d, u)]
        p1 == f_poll(u.f)
        p2 == f_poll(p1.f)
        p  == IF p1.r.k = "Err" THEN p2 ELSE p1
    IN  [self   |-> [u EXCEPT !.f = p.f],
         ret    |-> CASE p.r.k = "Ready"    -> Ready(From_from(b.ft.item, d.item, p.r.x))
                      [] p.r.k = "NotReady" -> NotReady
                      [] p.r.k = "Err"      -> Err(From_from(b.ft.err, d.err, p.r.x))
                      [] p.r.k = "Panic"    -> Panic,
         polled |-> IF p1.r.k = "Err"
                    THEN << [n |-> b.n, r |-> p1.r], [n |-> b.n, r |-> p2.r] >>
                    ELSE << [n |-> b.n, r |-> p1.r] >>]

\* poll that moves a branch that is not ready into the first variant
poll_rebind_pending(d, u) ==
    LET b == d.branches[ArmOf(d, u)]
        p == f_poll(u.f)
    IN  [self   |-> [tag |-> IF p.r.k = "NotReady" THEN d.branches[1].n ELSE u.tag,
                     f   |-> p.f],
         ret    |-> CASE p.r.k = "Ready"    -> Ready(From_from(b.ft.item, d.item, p.r.x))
                      [] p.r.k = "NotReady" -> NotReady
                      [] p.r.k = "Err"      -> Err(From_from(b.ft.err, d.err, p.r.x))
                      [] p.r.k = "Panic"    -> Panic,
         polled |-> << [n |-> b.n, r |-> p.r] >>]

\* poll that reports a branch's value as not ready and drops it
poll_lost_value(d, u) ==
    LET b == d.branches[ArmOf(d, u)]
        p == f_poll(u.f)
    IN  [self   |-> [u EXCEPT !.f = p.f],
         ret    |-> CASE p.r.k = "Ready"    -> NotReady
                      [] p.r.k = "NotReady" -> NotReady
                      [] p.r.k = "Err"      -> Err(From_from(b.ft.err, d.err, p.r.x))
                      [] p.r.k = "Panic"    -> Panic,
         polled |-> << [n |-> b.n, r |-> p.r] >>]

\* Future::poll, restricted arm
poll(d, u) ==
    LET b == d.branches[ArmOf(d, u)]
        p == f_poll(u.f)
    IN  [self   |-> [u EXCEPT !.f = p.f],
         ret    |-> CASE p.r.k = "Ready"    -> Ready(From_from(b.ft.item, d.item, p.r.x))
                      [] p.r.k = "NotReady" -> NotReady
                      [] p.r.k = "Err"      -> Err(From_from(b.ft.err, d.err, p.r.x))
                      [] p.r.k = "Panic"    -> Panic,
         polled |-> << [n |-> b.n, r |-> p.r] >>]

\* Future::poll, pub arm
poll_pub(d, u) ==
    LET b == d.branches[ArmOf(d, u)]
        p == f_poll(u.f)
    IN  [self   |-> [u EXCEPT !.f = p.f],
         ret    |-> CASE p.r.k = "Ready"    -> Ready(From_from(b.ft.item, d.item, p.r.x))
                      [] p.r.k = "NotReady" -> NotReady
                      [] p.r.k = "Err"      -> Err(From_from(b.ft.err, d.err, p.r.x))
                      [] p.r.k = "Panic"    -> Panic,
         polled |-> << [n |-> b.n, r |-> p.r] >>]

\* from that wraps in the first variant, whatever the type of the argument
from_first(d, other) == Variant(d, d.branches[1].n, other)

\* from that wraps in the last variant, whatever the type of the argument
from_last(d, other) == Variant(d, d.branches[Len(d.branches)].n, other)

\* impl From<$ft> for $name, restricted arm: the impl is picked by the
\* type of the argument
from(d, other) ==
    LET k == CHOOSE k \in Arms(d) : d.branches[k].ft = other.ft
    IN  Variant(d, d.branches[k].n, other)

\* impl From<$ft> for $name, pub arm
from_pub(d, other) ==
    LET k == CHOOSE k \in Arms(d) : d.branches[k].ft = other.ft
    IN  Variant_pub(d, d.branches[k].n, other)

(* ---------------------------------------------------------------------- *)
(* State                                                                    *)
(* ---------------------------------------------------------------------- *)

VARIABLES
    decl,   \* the declaration the macro was invoked with
    vis,    \* the arm of the macro that matched: "restricted" or "pub"
    inst,   \* the instances constructed so far
    orig,   \* how each instance was constructed: by, label, bare branch value
    trace   \* per instance, one entry per poll call made on it

vars == <<decl, vis, inst, orig, trace>>

Init ==
    /\ decl \in {d \in Invocations : Expands(d)}
    /\ vis \in {"restricted", "pub"}
    /\ inst = << >>
    /\ orig = << >>
    /\ trace = << >>

\* let a: $name = f.into(), with f a value of the k-th branch type
Into(i, k, f) ==
    /\ i \notin DOMAIN inst
    /\ k \in Arms(decl)
    /\ f \in Futures(decl.branches[k].ft)
    /\ LET u == IF vis = "pub" THEN from_pub(decl, f) ELSE from(decl, f)
       IN  /\ inst' = inst @@ (i :> u)
           /\ orig' = orig @@ (i :> [by |-> "from", n |-> decl.branches[k].n, f |-> f])
    /\ trace' = trace @@ (i :> << >>)
    /\ UNCHANGED <<decl, vis>>

\* let a = $name::$n(f)
Construct(i, k, f) ==
    /\ i \notin DOMAIN inst
    /\ k \in Arms(decl)
    /\ f \in Futures(decl.branches[k].ft)
    /\ LET n == decl.branches[k].n
           u == IF vis = "pub" THEN Variant_pub(decl, n, f) ELSE Variant(decl, n, f)
       IN  /\ inst' = inst @@ (i :> u)
           /\ orig' = orig @@ (i :> [by |-> "variant", n |-> n, f |-> f])
    /\ trace' = trace @@ (i :> << >>)
    /\ UNCHANGED <<decl, vis>>

\* a.poll() of a union that keeps a completion flag of its own: once a call
\* has reported Ready or Err, later calls report NotReady without polling
PollFused(i) ==
    /\ i \in DOMAIN inst
    /\ Len(trace[i]) < MaxPolls
    /\ LET p    == IF vis = "pub" THEN poll_pub(decl, inst[i]) ELSE poll(decl, inst[i])
           done == /\ trace[i] # << >>
                   /\ \E j \in 1 .. Len(trace[i]) : trace[i][j].ret.k \in {"Ready", "Err"}
       IN  /\ inst' = IF done THEN inst ELSE [inst EXCEPT ![i] = p.self]
           /\ trace' = [trace EXCEPT ![i] =
                          Append(@, [pre    |-> inst[i],
                                     polled |-> IF done THEN << >> ELSE p.polled,
                                     ret    |-> IF done THEN NotReady ELSE p.ret])]
    /\ UNCHANGED <<decl, vis, orig>>

\* a.poll() of a union that keeps the payload of a variant in storage that
\* its instances share: a poll moves every instance of that variant on
PollShared(i) ==
    /\ i \in DOMAIN inst
    /\ Len(trace[i]) < MaxPolls
    /\ LET p == IF vis = "pub" THEN poll_pub(decl, inst[i]) ELSE poll(decl, inst[i])
       IN  /\ inst' = [j \in DOMAIN inst |->
                         IF j = i THEN p.self
                         ELSE IF inst[j].tag = inst[i].tag
                              THEN [inst[j] EXCEPT !.f = f_poll(inst[j].f).f]
                              ELSE inst[j]]
           /\ trace' = [trace EXCEPT ![i] =
                          Append(@, [pre |-> inst[i], polled |-> p.polled, ret |-> p.ret])]
    /\ UNCHANGED <<decl, vis, orig>>

\* a.poll()
Poll(i) ==
    /\ i \in DOMAIN inst
    /\ Len(trace[i]) < MaxPolls
    /\ LET p == IF vis = "pub" THEN poll_pub(decl, inst[i]) ELSE poll(decl, inst[i])
       IN  /\ inst' = [inst EXCEPT ![i] = p.self]
           /\ trace' = [trace EXCEPT ![i] =
                          Append(@, [pre |-> inst[i], polled |-> p.polled, ret |-> p.ret])]
    /\ UNCHANGED <<decl, vis, orig>>

Next ==
    \E i \in Insts :
        \/ \E k \in Arms(decl) : \E f \in Futures(decl.branches[k].ft) : Into(i, k, f)
        \/ \E k \in Arms(decl) : \E f \in Futures(decl.branches[k].ft) : Construct(i, k, f)
        \/ Poll(i)

Spec == Init /\ [][Next]_vars

(* ---------------------------------------------------------------------- *)
(* Properties                                                               *)
(* ---------------------------------------------------------------------- *)

\* the poll calls made so far, as (instance, index) pairs
Calls == {c \in Insts \X (1 .. MaxPolls) :
             c[1] \in DOMAIN trace /\ c[2] <= Len(trace[c[1]])}

Call(c) == trace[c[1]][c[2]]

\* the declared branch type behind label n
TypeOfLabel(d, n) == d.branches[CHOOSE k \in Arms(d) : d.branches[k].n = n].ft

Terminal(o) == o.k \in {"Ready", "Err"}

\* C1: whenever the branch of the active variant k reports completed with v,
\* the same union poll call reports completed with From::from(v) taken from
\* branch k's value type into the union's result type; a Number branch
\* ready with 5u32 in a union over f64 reports Ready(5.0) on the first poll.
ValueConversion ==
    /\ \A c \in Calls :
         LET e  == Call(c)
             ft == TypeOfLabel(decl, e.pre.tag)
         IN  \A q \in 1 .. Len(e.polled) :
                 e.polled[q].r.k = "Ready" =>
                     e.ret = Ready(From_from(ft.item, decl.item, e.polled[q].r.x))
    /\ \A i \in DOMAIN trace :
         /\ decl.item = "f64"
         /\ trace[i] # << >>
         => /\ orig[i].f.st = << Ready(Val("u32", 5)) >>
                 => trace[i][1].ret = Ready(Val("f64", 20))
            /\ orig[i].f.st = << Ready(Val("f32", 21)) >>
                 => trace[i][1].ret = Ready(Val("f64", 21))

\* a Number branch holding ok(5u32) has been polled in a union over f64
ValueConversionWitness ==
    \E i \in DOMAIN trace :
        /\ decl = different_item_types
        /\ inst[i].tag = "Number"
        /\ orig[i].f.st = << Ready(Val("u32", 5)) >>
        /\ Len(trace[i]) = 1
        /\ trace[i][1].ret = Ready(Val("f64", 20))

\* C2: whenever the branch of the active variant k reports failure with e,
\* the same union poll call reports failure with From::from(e) taken from
\* branch k's error type into the union's error type; a branch that fails
\* at once is reported as that failure on the first poll.
ErrorConversion ==
    /\ \A c \in Calls :
         LET e  == Call(c)
             ft == TypeOfLabel(decl, e.pre.tag)
         IN  \A q \in 1 .. Len(e.polled) :
                 e.polled[q].r.k = "Err" =>
                     e.ret = Err(From_from(ft.err, decl.err, e.polled[q].r.x))
    /\ \A i \in DOMAIN trace :
         /\ trace[i] # << >>
         /\ orig[i].f.ft.kind = "FutureResult"
         /\ orig[i].f.st[1].k = "Err"
         => /\ trace[i][1].ret.k = "Err"
            /\ trace[i][1].ret.x.ty = decl.err
            /\ orig[i].f.ft.err = "OtherError" => trace[i][1].ret = Err(BigFail)
            /\ orig[i].f.ft.err = decl.err => trace[i][1].ret = orig[i].f.st[1]

\* a Floating branch holding err(OtherError) has been polled
ErrorConversionWitness ==
    \E i \in DOMAIN trace :
        /\ decl = different_err_types
        /\ inst[i].tag = "Floating"
        /\ orig[i].f.st = << Err(OtherError(2)) >>
        /\ Len(trace[i]) = 1
        /\ trace[i][1].ret = Err(BigFail)

\* C3: as long as every poll of the active branch has reported NotReady,
\* every poll of the union has reported NotReady; a branch that never
\* completes (Empty) gives NotReady on every poll, however many are made.
NotReadyPassthrough ==
    \A i \in DOMAIN trace :
        /\ (\A j \in 1 .. Len(trace[i]) : \A q \in 1 .. Len(trace[i][j].polled) :
                trace[i][j].polled[q].r = NotReady)
           => \A j \in 1 .. Len(trace[i]) : trace[i][j].ret = NotReady
        /\ orig[i].f.ft.kind = "Empty"
           => \A j \in 1 .. Len(trace[i]) : trace[i][j].ret = NotReady

\* a Forever branch has been polled as often as the bound allows
NotReadyPassthroughWitness ==
    \E i \in DOMAIN trace :
        /\ orig[i].f.ft.kind = "Empty"
        /\ Len(trace[i]) = MaxPolls
        /\ \A j \in 1 .. Len(trace[i]) : trace[i][j].ret = NotReady

\* C4: no step changes the variant of an instance that exists: after any
\* sequence of polls the variant is the one the instance was constructed with.
VariantFixed ==
    [][\A i \in DOMAIN inst : inst'[i].tag = inst[i].tag]_vars

\* an instance has been polled past a terminal outcome and still has the
\* variant it was constructed with
VariantFixedWitness ==
    \E i \in DOMAIN trace :
        /\ Len(trace[i]) = MaxPolls
        /\ Terminal(trace[i][1].ret)
        /\ inst[i].tag = orig[i].n
        /\ inst[i].tag # decl.branches[1].n

\* the number of f.poll() calls that the calls of tr made on the branch
\* behind label n
RECURSIVE PolledCount(_, _)
PolledCount(tr, n) ==
    IF tr = << >> THEN 0
    ELSE Cardinality({q \in 1 .. Len(Head(tr).polled) : Head(tr).polled[q].n = n})
         + PolledCount(Tail(tr), n)

\* C5: every union poll call makes exactly one f.poll() call, on the branch
\* of the active variant: after n union polls the active branch has been
\* polled n times and every other declared branch 0 times.
PollsActiveOnce ==
    \A i \in DOMAIN trace :
        /\ \A j \in 1 .. Len(trace[i]) : Len(trace[i][j].polled) = 1
        /\ \A n \in Labels(decl) :
             PolledCount(trace[i], n) = IF n = inst[i].tag THEN Len(trace[i]) ELSE 0

\* an instance has been polled as often as the bound allows and its branch
\* was not ready on the first call
PollsActiveOnceWitness ==
    \E i \in DOMAIN trace :
        /\ Len(trace[i]) = MaxPolls
        /\ trace[i][1].polled[1].r = NotReady
        /\ PolledCount(trace[i], inst[i].tag) = MaxPolls

\* what polling the bare branch value f directly n times reports
RECURSIVE BareOutcomes(_, _)
BareOutcomes(f, n) ==
    IF n = 0 THEN << >>
    ELSE << f_poll(f).r >> \o BareOutcomes(f_poll(f).f, n - 1)

\* a branch outcome of branch type ft, taken through the declared value
\* and error conversions of d
Converted(d, ft, r) ==
    CASE r.k = "Ready" -> Ready(From_from(ft.item, d.item, r.x))
      [] r.k = "Err"   -> Err(From_from(ft.err, d.err, r.x))
      [] OTHER         -> r

\* C6: an instance made from a bare branch value by From/into reports, poll
\* by poll, the outcome that polling the bare value directly reports, with
\* a completed value taken through the declared value conversion and an
\* error through the declared error conversion.
RoundTrip ==
    \A i \in DOMAIN trace :
        orig[i].by = "from" =>
            LET bare == BareOutcomes(orig[i].f, Len(trace[i]))
            IN  \A j \in 1 .. Len(trace[i]) :
                    /\ trace[i][j].ret.k = bare[j].k
                    /\ trace[i][j].ret = Converted(decl, orig[i].f.ft, bare[j])

\* a Floating branch value was converted into the union and polled to its
\* value, which the conversion changed in type
RoundTripWitness ==
    \E i \in DOMAIN trace :
        /\ orig[i].by = "from"
        /\ orig[i].f.ft.item = "f32"
        /\ Len(trace[i]) >= 1
        /\ trace[i][1].ret = Ready(Val("f64", 21))

\* C7: from is defined for every value f of every declared branch type k
\* and gives the instance whose variant is k and whose payload is f.  (The
\* first conjunct depends on the declaration alone, which no step changes:
\* it is evaluated where the declaration is drawn.)
FromWraps ==
    /\ inst = << >> =>
         \A k \in Arms(decl) : \A f \in Futures(decl.branches[k].ft) :
             (IF vis = "pub" THEN from_pub(decl, f) ELSE from(decl, f))
                 = [tag |-> decl.branches[k].n, f |-> f]
    /\ \A i \in DOMAIN inst :
         orig[i].by = "from" =>
             LET first == IF trace[i] = << >> THEN inst[i] ELSE trace[i][1].pre
             IN  first = [tag |-> orig[i].n, f |-> orig[i].f]

\* a value of the second branch type has been converted and not yet polled
FromWrapsWitness ==
    \E i \in DOMAIN inst :
        /\ orig[i].by = "from"
        /\ Len(decl.branches) = 2
        /\ orig[i].n = decl.branches[2].n
        /\ trace[i] = << >>
        /\ inst[i] = [tag |-> decl.branches[2].n, f |-> orig[i].f]

\* what n polls of u report through the restricted arm's poll
RECURSIVE Rets(_, _)
Rets(u, n) ==
    IF n = 0 THEN << >>
    ELSE << poll(decl, u).ret >> \o Rets(poll(decl, u).self, n - 1)

\* what n polls of u report through the pub arm's poll
RECURSIVE Rets_pub(_, _)
Rets_pub(u, n) ==
    IF n = 0 THEN << >>
    ELSE << poll_pub(decl, u).ret >> \o Rets_pub(poll_pub(decl, u).self, n - 1)

\* C8: for one declaration the pub arm and the restricted arm generate the
\* same variants and the same conversions, and their polls report the same
\* outcomes over every branch state and every sequence of polls.
VisibilityNoEffect ==
    /\ inst = << >> =>
         \A k \in Arms(decl) : \A f \in Futures(decl.branches[k].ft) :
             /\ Variant_pub(decl, decl.branches[k].n, f) = Variant(decl, decl.branches[k].n, f)
             /\ from_pub(decl, f) = from(decl, f)
    /\ \A i \in DOMAIN inst :
         /\ poll_pub(decl, inst[i]) = poll(decl, inst[i])
         /\ LET u == Variant(decl, orig[i].n, orig[i].f)
                n == Len(trace[i])
            IN  /\ Rets_pub(u, n) = Rets(u, n)
                /\ \A j \in 1 .. n : trace[i][j].ret = Rets(u, n)[j]

\* under the pub arm an instance has been polled to a converted value and
\* polled again
VisibilityNoEffectWitness ==
    \E i \in DOMAIN trace :
        /\ vis = "pub"
        /\ Len(trace[i]) >= 2
        /\ trace[i][1].ret.k = "Ready"
        /\ trace[i][1].ret.x.ty # orig[i].f.ft.item

RECURSIVE UnionFailures(_)
UnionFailures(tr) ==
    IF tr = << >> THEN 0
    ELSE (IF Head(tr).ret.k = "Err" THEN 1 ELSE 0) + UnionFailures(Tail(tr))

\* the number of f.poll() calls made in tr that reported failure
RECURSIVE BranchFailures(_)
BranchFailures(tr) ==
    IF tr = << >> THEN 0
    ELSE Cardinality({q \in 1 .. Len(Head(tr).polled) : Head(tr).polled[q].r.k = "Err"})
         + BranchFailures(Tail(tr))

\* C10 as stated: every failure of the branch is reported as a failure by
\* the union, and an instance reports failure once and not again.
FailureOnceAsStated ==
    \A i \in DOMAIN trace :
        /\ \A j \in 1 .. Len(trace[i]) :
             f_poll(trace[i][j].pre.f).r.k = "Err" => trace[i][j].ret.k = "Err"
        /\ UnionFailures(trace[i]) <= 1

\* C10: every failure of the branch is reported as a failure by the union
\* on the same poll call, and the union reports one failure for each
\* failure of its branch: as many as the branch reports, no more, no fewer.
FailureForwarded ==
    \A i \in DOMAIN trace :
        /\ \A j \in 1 .. Len(trace[i]) :
             /\ f_poll(trace[i][j].pre.f).r.k = "Err" => trace[i][j].ret.k = "Err"
             /\ trace[i][j].ret.k = "Err" => f_poll(trace[i][j].pre.f).r.k = "Err"
        /\ UnionFailures(trace[i]) = BranchFailures(trace[i])

\* a branch has failed on a poll after polls on which it was not ready, and
\* the union reported that one failure
FailureForwardedWitness ==
    \E i \in DOMAIN trace :
        /\ Len(trace[i]) = 2
        /\ trace[i][1].ret = NotReady
        /\ trace[i][2].ret.k = "Err"
        /\ UnionFailures(trace[i]) = 1
        /\ BranchFailures(trace[i]) = 1

\* C11: a declaration with no (label => branch type) entry is rejected: no
\* union type is generated from it.
EmptyBranchListRejected ==
    decl.branches # << >>

\* C12: a union poll that reports NotReady carries no value and changes
\* nothing of the instance but the state of the active branch, which is
\* what the branch's own poll left: the variant and the payload's type are
\* the same, and nothing else of the state changes.
PendingFrame ==
    [][\A i \in DOMAIN inst :
          /\ Len(trace'[i]) = Len(trace[i]) + 1
          /\ trace'[i][Len(trace'[i])].ret.k = "NotReady"
          => /\ trace'[i][Len(trace'[i])].ret = NotReady
             /\ inst'[i].tag = inst[i].tag
             /\ inst'[i].f.ft = inst[i].f.ft
             /\ inst'[i] = [inst[i] EXCEPT !.f = f_poll(inst[i].f).f]
             /\ UNCHANGED <<decl, vis, orig>>]_vars

\* a branch that is not the first one went a step further on a poll that
\* reported NotReady
PendingFrameWitness ==
    \E i \in DOMAIN trace :
        /\ trace[i] # << >>
        /\ trace[i][Len(trace[i])].ret = NotReady
        /\ trace[i][Len(trace[i])].pre.f.st # inst[i].f.st
        /\ inst[i].tag = orig[i].n
        /\ inst[i].tag # decl.branches[1].n

\* what the first n polls of instance i report when no other instance exists
AloneRets(i, n) ==
    LET u == [tag |-> orig[i].n, f |-> orig[i].f]
    IN  IF vis = "pub" THEN Rets_pub(u, n) ELSE Rets(u, n)

\* C13: a poll of one instance leaves every other instance as it was, its
\* variant, its branch and the record of its polls, and in every
\* interleaving each instance reports, poll by poll, what it reports when
\* it is polled alone.
InstancesIndependent ==
    [][/\ \A i \in DOMAIN inst : \A j \in DOMAIN inst \ {i} :
            trace'[i] # trace[i] => inst'[j] = inst[j] /\ trace'[j] = trace[j]
       /\ \A i \in DOMAIN inst :
            \A k \in 1 .. Len(trace'[i]) :
                trace'[i][k].ret = AloneRets(i, Len(trace'[i]))[k]]_vars

\* two instances of one variant, holding branches in different states, have
\* both been polled
InstancesIndependentWitness ==
    \E i \in DOMAIN inst : \E j \in DOMAIN inst \ {i} :
        /\ inst[i].tag = inst[j].tag
        /\ Len(trace[i]) >= 2
        /\ Len(trace[j]) >= 1
        /\ inst[i].f # inst[j].f
        /\ trace[i][2].ret # trace[j][1].ret

\* C14: an instance is its variant and its branch and holds no flag of its
\* own; a poll made after a poll that reported completed or failed still
\* polls the active branch, once, and reports what the branch reports on
\* that poll, converted - a second completed or failed outcome included.
NoCompletionGuard ==
    \A i \in DOMAIN inst :
        /\ DOMAIN inst[i] = {"tag", "f"}
        /\ \A j \in 2 .. Len(trace[i]) :
             (\E h \in 1 .. j - 1 : Terminal(trace[i][h].ret)) =>
                 LET e == trace[i][j]
                 IN  /\ Len(e.polled) = 1
                     /\ e.polled[1].n = e.pre.tag
                     /\ e.polled[1].r = f_poll(e.pre.f).r
                     /\ e.ret = Converted(decl, TypeOfLabel(decl, e.pre.tag), e.polled[1].r)

\* an instance that reported completed was polled again and reported failed
NoCompletionGuardWitness ==
    \E i \in DOMAIN trace :
        /\ Len(trace[i]) >= 2
        /\ trace[i][1].ret.k = "Ready"
        /\ trace[i][2].ret.k = "Err"
        /\ trace[i][2].polled[1].r.k = "Err"

\* one instance, constructed and then polled by its owner
SoloNext ==
    \/ \E k \in Arms(decl) : \E f \in Futures(decl.branches[k].ft) : Into(1, k, f)
    \/ \E k \in Arms(decl) : \E f \in Futures(decl.branches[k].ft) : Construct(1, k, f)
    \/ Poll(1)

\* the owner goes on polling the instance for as long as the bound allows
FairSpec == Init /\ [][SoloNext]_vars /\ WF_vars(Poll(1))

\* the poll on which the bare branch value f first reports completed or
\* failed, among the polls the bound allows; 0 when there is none
FirstTerminal(f) ==
    LET bare == BareOutcomes(f, MaxPolls)
        at   == {j \in 1 .. MaxPolls : Terminal(bare[j])}
    IN  IF at = {} THEN 0 ELSE CHOOSE j \in at : \A h \in at : j <= h

\* instance i has reported the first terminal outcome of its branch,
\* converted, on the poll on which the branch reported it
Reported(i) ==
    LET p == FirstTerminal(orig[i].f)
    IN  /\ p > 0
        /\ Len(trace[i]) >= p
        /\ trace[i][p].ret = Converted(decl, orig[i].f.ft, BareOutcomes(orig[i].f, p)[p])

\* C15: when an instance goes on being polled and its branch reports
\* completed or failed on some poll, the union comes to report the
\* converted outcome, on that very poll; every poll before it reports
\* NotReady.
EventuallyReported ==
    /\ \A i \in Insts :
         (i \in DOMAIN inst /\ FirstTerminal(orig[i].f) > 0)
             ~> (i \in DOMAIN inst /\ Reported(i))
    /\ [](\A i \in DOMAIN inst : \A j \in 1 .. Len(trace[i]) :
             LET p == FirstTerminal(orig[i].f)
             IN  /\ (p = 0 \/ j < p) => trace[i][j].ret = NotReady
                 /\ j = p => Terminal(trace[i][j].ret))

\* a branch was not ready on the first poll and reported its value on the
\* second, and so did the union
EventuallyReportedWitness ==
    \E i \in DOMAIN trace :
        /\ FirstTerminal(orig[i].f) = 2
        /\ Len(trace[i]) >= 2
        /\ trace[i][1].ret = NotReady
        /\ trace[i][2].ret = Ready(Val("f64", 20))

====
